---- MODULE Spec2Model ----
(***************************************************************************)
(* Model of transcribe.py: the word segmenter build_subtitles_from_words,  *)
(* the SRT clock formatter format_time and the emission loop of main.      *)
(*                                                                         *)
(* Representation.                                                         *)
(*  - A text is a sequence of one-character strings, so that join, len and *)
(*    strip are computed character by character.                           *)
(*  - In the segmenter and in main, a time is a whole number of ticks of   *)
(*    0.1 s; the segmenter only subtracts and compares times.              *)
(*  - The argument of format_time is a record [s, f]: s whole seconds and  *)
(*    f a fraction counted in units of 10^-7 s, one decimal finer than the *)
(*    microsecond resolution of datetime.timedelta.  Arithmetic on it is   *)
(*    exact; binary floating-point error is not modelled.                  *)
(***************************************************************************)
EXTENDS Integers, Sequences, FiniteSets, TLC

VARIABLES
    pc,          \* position of the running function
    words,       \* build_subtitles_from_words: parameter words
    pause,       \* build_subtitles_from_words: parameter pause
    max_len,     \* build_subtitles_from_words: parameter max_len
    subs,        \* build_subtitles_from_words: the returned list
    groups,      \* history: len(current_words) at each subs.append
    seconds,     \* format_time: parameter seconds
    formatted,   \* format_time: the returned string
    args,        \* main: args.pause and args.max_len
    segments,    \* main: result["segments"]
    seg,         \* main: position of the outer for loop (1-based)
    subtitles,   \* main: the list returned for the current segment
    cue,         \* main: position of the inner for loop (1-based)
    index,       \* main: the running block number
    out,         \* main: the blocks written to f, in order
    called       \* history: the word lists passed to build_subtitles_from_words

vars == <<pc, words, pause, max_len, subs, groups, seconds, formatted,
          args, segments, seg, subtitles, cue, index, out, called>>

segmenterVars == <<words, pause, max_len, subs, groups>>
formatVars    == <<seconds, formatted>>
mainVars      == <<args, segments, seg, subtitles, cue, index, out, called>>

----------------------------------------------------------------------------
(* Bounds of the model *)

MaxWords == 3      \* longest word list given to the segmenter
MaxTime  == 2      \* latest word time, in ticks
MaxChars == 8      \* longest run of one-character words (length splitting)
MaxSegs  == 3      \* most transcript segments in one run of main
MaxWhole == 70     \* format_time: whole seconds 0..MaxWhole are all tried

----------------------------------------------------------------------------
(* Sequence helpers *)

Last(s) == s[Len(s)]

RECURSIVE SumTo(_, _)
SumTo(s, n) == IF n = 0 THEN 0 ELSE s[n] + SumTo(s, n - 1)

SeqsUpTo(S, n) == UNION { [1..m -> S] : m \in 0..n }

----------------------------------------------------------------------------
(* build_subtitles_from_words *)

\* " ".join(texts)
RECURSIVE Join(_)
Join(texts) ==
    IF texts = <<>> THEN <<>>
    ELSE IF Len(texts) = 1 THEN texts[1]
    ELSE texts[1] \o <<" ">> \o Join(Tail(texts))

\* [x["word"] for x in current_words]
WordTexts(current_words) == [j \in 1..Len(current_words) |-> current_words[j].word]

\* mutant of Gap: gap = w["start"] for an empty group
GapFromZero(current_words, w) ==
    IF current_words # <<>> THEN w.start - Last(current_words).end ELSE w.start

\* lines 101-104
Gap(current_words, w) ==
    IF current_words # <<>> THEN w.start - Last(current_words).end ELSE 0

\* mutant of TextLen: len("".join(...))
TextLenNoSeparators(current_words) ==
    SumTo([j \in 1..Len(current_words) |-> Len(current_words[j].word)],
          Len(current_words))

\* line 106
TextLen(current_words) == Len(Join(WordTexts(current_words)))

\* mutant of ShouldFlush: gap >= pause
ShouldFlushNonStrict(gap, text_len, p, m) == gap >= p \/ text_len > m

\* mutant of ShouldFlush: text_len >= max_len
ShouldFlushAtMaxLen(gap, text_len, p, m) == gap > p \/ text_len >= m

\* line 108
ShouldFlush(gap, text_len, p, m) == gap > p \/ text_len > m

\* the tuple appended to subs (lines 110 and 117)
Cue(start_time, current_words) ==
    [start |-> start_time,
     end   |-> Last(current_words).end,
     text  |-> Join(WordTexts(current_words))]

\* mutant of AppendCue: subs.insert(0, ...)
AppendCueInFront(s, c) == <<c>> \o s

\* subs.append(...)
AppendCue(s, c) == Append(s, c)

\* mutant of NewStart: start_time = w["end"]
NewStartFromEnd(w) == w.end

\* start_time after a flush (line 112)
NewStart(w) == w.start

\* the state before the loop (lines 96-98); words is not empty here
LoopInit(ws) ==
    [subs |-> <<>>, current_words |-> <<>>, start_time |-> ws[1].start,
     groups |-> <<>>, raised |-> FALSE]

\* lines 109-112: current_words[-1] raises IndexError on an empty list
Flush(st, w) ==
    IF st.current_words = <<>>
    THEN [st EXCEPT !.raised = TRUE]
    ELSE [st EXCEPT !.subs = AppendCue(@, Cue(st.start_time, st.current_words)),
                    !.groups = Append(@, Len(st.current_words)),
                    !.current_words = <<>>,
                    !.start_time = NewStart(w)]

\* mutant of LoopBody: the word that triggers a flush is not appended
LoopBodyDropsTrigger(st, w, p, m) ==
    LET gap      == Gap(st.current_words, w)
        text_len == TextLen(st.current_words)
    IN  IF ShouldFlush(gap, text_len, p, m)
        THEN Flush(st, w)
        ELSE [st EXCEPT !.current_words = Append(@, w)]

\* one iteration of the for loop (lines 100-114)
LoopBody(st, w, p, m) ==
    LET gap      == Gap(st.current_words, w)
        text_len == TextLen(st.current_words)
        flushed  == IF ShouldFlush(gap, text_len, p, m) THEN Flush(st, w) ELSE st
    IN  IF flushed.raised THEN flushed
        ELSE [flushed EXCEPT !.current_words = Append(@, w)]

\* the for loop (line 100), from word i on
RECURSIVE ForEachWord(_, _, _, _, _)
ForEachWord(ws, i, st, p, m) ==
    IF i > Len(ws) \/ st.raised THEN st
    ELSE ForEachWord(ws, i + 1, LoopBody(st, ws[i], p, m), p, m)

\* lines 116-117
FinalFlush(st) ==
    IF st.raised \/ st.current_words = <<>> THEN st
    ELSE [st EXCEPT !.subs = AppendCue(@, Cue(st.start_time, st.current_words)),
                    !.groups = Append(@, Len(st.current_words))]

\* the whole function; words[0] raises IndexError on an empty list (line 98)
build_subtitles_from_words(ws, p, m) ==
    IF ws = <<>>
    THEN [subs |-> <<>>, current_words |-> <<>>, start_time |-> 0,
          groups |-> <<>>, raised |-> TRUE]
    ELSE FinalFlush(ForEachWord(ws, 1, LoopInit(ws), p, m))

----------------------------------------------------------------------------
(* Inputs of the segmenter *)

Texts == { <<"a">>, <<"b", "c">> }

Times == 0..MaxTime

\* a word record of the recognizer: end >= start
WordRecords ==
    { [word |-> t, start |-> s, end |-> e] :
        t \in Texts, s \in Times, e \in Times } \
    { r \in [word : Texts, start : Times, end : Times] : r.end < r.start }

PauseValues  == {-1, 0, 1}
MaxLenValues == {-1, 0, 2}

\* <<pause, max_len>>; a negative threshold is paired with a positive one
Thresholds ==
    { t \in PauseValues \X MaxLenValues : (t[1] < 0 => t[2] > 0) /\ (t[2] < 0 => t[1] > 0) }

IdleSegmenter ==
    words = <<>> /\ pause = 0 /\ max_len = 0 /\ subs = <<>> /\ groups = <<>>

NoFormat == [seconds |-> [s |-> 0, f |-> 0], formatted |-> ""]
NoMain ==
    [args |-> [pause |-> 0, max_len |-> 0], segments |-> <<>>, seg |-> 0,
     subtitles |-> <<>>, cue |-> 0, index |-> 0, out |-> <<>>, called |-> <<>>]

IdleFormat == seconds = NoFormat.seconds /\ formatted = NoFormat.formatted
IdleMain ==
    /\ args = NoMain.args /\ segments = NoMain.segments /\ seg = NoMain.seg
    /\ subtitles = NoMain.subtitles /\ cue = NoMain.cue /\ index = NoMain.index
    /\ out = NoMain.out /\ called = NoMain.called

\* a call of build_subtitles_from_words on a non-empty word list
Init ==
    /\ pc = "call"
    /\ words \in SeqsUpTo(WordRecords, MaxWords) \ {<<>>}
    /\ \E t \in Thresholds : pause = t[1] /\ max_len = t[2]
    /\ subs = <<>>
    /\ groups = <<>>
    /\ IdleFormat
    /\ IdleMain

\* the call returns its list
BuildReturns ==
    /\ pc = "call"
    /\ LET r == build_subtitles_from_words(words, pause, max_len)
       IN  /\ ~r.raised
           /\ subs' = r.subs
           /\ groups' = r.groups
    /\ pc' = "returned"
    /\ UNCHANGED <<words, pause, max_len, formatVars, mainVars>>

\* the call ends with IndexError
BuildRaises ==
    /\ pc = "call"
    /\ build_subtitles_from_words(words, pause, max_len).raised
    /\ pc' = "raised"
    /\ UNCHANGED <<segmenterVars, formatVars, mainVars>>

Next == BuildReturns \/ BuildRaises

Spec == Init /\ [][Next]_vars

----------------------------------------------------------------------------
(* Length splitting: one-character words without pauses, max_len = 5 *)

Letters == { <<"a">>, <<"b">> }

\* word j lasts from tick j-1 to tick j, so every gap is 0
Contiguous(texts) ==
    [j \in 1..Len(texts) |-> [word |-> texts[j], start |-> j - 1, end |-> j]]

InitLen ==
    /\ pc = "call"
    /\ \E texts \in SeqsUpTo(Letters, MaxChars) \ {<<>>} : words = Contiguous(texts)
    /\ pause \in {0, 1}
    /\ max_len = 5
    /\ subs = <<>>
    /\ groups = <<>>
    /\ IdleFormat
    /\ IdleMain

NextLen == BuildReturns

SpecLen == InitLen /\ [][NextLen]_vars

----------------------------------------------------------------------------
(* format_time *)

MicrosPerSecond == 1000 * 1000

\* the resolution of the model's seconds: 10^-7 s
UnitsPerSecond == 10 * MicrosPerSecond
UnitsPerMicro  == UnitsPerSecond \div MicrosPerSecond
UnitsPerMilli  == UnitsPerSecond \div 1000

\* n / d rounded to the nearest integer, ties to the even one
RoundHalfEven(n, d) ==
    LET q == n \div d
        r == n % d
    IN  IF 2 * r < d THEN q
        ELSE IF 2 * r > d THEN q + 1
        ELSE IF q % 2 = 0 THEN q ELSE q + 1

\* int(x) for the quotient a / b with b > 0: truncation toward zero
TruncDiv(a, b) == IF a >= 0 THEN a \div b ELSE -((-a) \div b)

\* timedelta(seconds=x): the value rounded to whole microseconds (ties to
\* even) and normalised so that 0 <= microseconds < 10^6
timedelta(x) ==
    LET us == RoundHalfEven(x.f, UnitsPerMicro)
    IN  [seconds      |-> x.s + us \div MicrosPerSecond,
         microseconds |-> us % MicrosPerSecond]

\* int(td.total_seconds()) for td >= 0
IntTotalSeconds(td) == td.seconds

\* f"{n:0{width}}"
RECURSIVE ZeroFill(_, _)
ZeroFill(str, width) == IF Len(str) >= width THEN str ELSE ZeroFill("0" \o str, width)

Pad(n, width) == ZeroFill(ToString(n), width)

\* f"{hours:02}:{minutes:02}:{seconds:02},{millis:03}"
Render(hours, minutes, secs, millis) ==
    Pad(hours, 2) \o ":" \o Pad(minutes, 2) \o ":" \o Pad(secs, 2) \o "," \o Pad(millis, 3)

\* lines 72-81.  (seconds - total_seconds) * 1000 is the difference in units
\* divided by the units of one millisecond; int() truncates it toward zero.
format_time(x) ==
    LET td            == timedelta(x)
        total_seconds == IntTotalSeconds(td)
        millis        == TruncDiv((x.s - total_seconds) * UnitsPerSecond + x.f,
                                  UnitsPerMilli)
        hours         == total_seconds \div 3600
        minutes       == (total_seconds % 3600) \div 60
        secs          == total_seconds % 60
    IN  Render(hours, minutes, secs, millis)

\* whole seconds tried: every value up to MaxWhole and some around the hour,
\* the day and the 100 hour marks
WholeValues == (0..MaxWhole) \cup {3599, 3600, 3661, 86399, 86400, 359999, 360000}

\* fractions tried, in units of 10^-7 s
FracValues ==
    { 0, 1, 4, 5, 6, 14, 15, 16, 9999, 10000, 78125, 2500000, 5000000,
      9989999, 9990000, 9999994, 9999995, 9999996, 9999999 }

InitFormat ==
    /\ pc = "call_format"
    /\ seconds \in [s : WholeValues, f : FracValues]
    /\ formatted = ""
    /\ IdleSegmenter
    /\ IdleMain

FormatTime ==
    /\ pc = "call_format"
    /\ formatted' = format_time(seconds)
    /\ pc' = "formatted"
    /\ UNCHANGED <<seconds, segmenterVars, mainVars>>

NextFormat == FormatTime

SpecFormat == InitFormat /\ [][NextFormat]_vars

----------------------------------------------------------------------------
(* main: the emission loop, lines 173-190 *)

\* a time of the segmenter, in ticks of 0.1 s, as the argument of format_time
Seconds(t) == [s |-> t \div 10, f |-> (t % 10) * (UnitsPerSecond \div 10)]

RECURSIVE LStrip(_)
LStrip(text) ==
    IF text # <<>> /\ text[1] = " " THEN LStrip(Tail(text)) ELSE text

RECURSIVE RStrip(_)
RStrip(text) ==
    IF text # <<>> /\ Last(text) = " " THEN RStrip(SubSeq(text, 1, Len(text) - 1))
    ELSE text

\* text.strip()
Strip(text) == RStrip(LStrip(text))

\* mutant of NoWords: only the missing key is tested
NoWordsKeyOnly(segment) == "words" \notin DOMAIN segment

\* line 177; "or" does not evaluate segment["words"] when the key is missing
NoWords(segment) ==
    IF "words" \notin DOMAIN segment THEN TRUE ELSE segment.words = <<>>

\* index = 1 (line 174)
InitialIndex == 1

\* mutant of BlockNumber: the blocks are numbered within their segment
BlockNumberInSegment(idx, c) == c

\* the number written for the cue at position c of subtitles (line 187)
BlockNumber(idx, c) == idx

\* the three writes of one cue (lines 187-189)
Block(idx, c, sub) ==
    [index |-> ToString(BlockNumber(idx, c)),
     start |-> format_time(Seconds(sub.start)),
     end   |-> format_time(Seconds(sub.end)),
     text  |-> Strip(sub.text)]

Word(text, start, end) == [word |-> text, start |-> start, end |-> end]

\* segments of the recognizer: without a word list, with an empty one, and
\* with one, two and three words
SegmentSamples ==
    { [id |-> 0],
      [id |-> 1, words |-> <<>>],
      [id |-> 2, words |-> << Word(<<" ", "a">>, 0, 1) >>],
      [id |-> 3, words |-> << Word(<<"b", "c">>, 0, 1), Word(<<"a">>, 2, 2) >>],
      [id |-> 4, words |-> << Word(<<"I">>, 0, 2), Word(<<"a", "m">>, 3, 5),
                              Word(<<"f", "i", "n", "e">>, 12, 15) >>] }

\* args.pause in ticks and args.max_len: the defaults, tight thresholds, and
\* a negative pause
ArgsValues ==
    { [pause |-> 4, max_len |-> 40],
      [pause |-> 0, max_len |-> 2],
      [pause |-> -1, max_len |-> 40] }

InitMain ==
    /\ pc = "for_segment"
    /\ args \in ArgsValues
    /\ segments \in SeqsUpTo(SegmentSamples, MaxSegs)
    /\ seg = 1
    /\ subtitles = <<>>
    /\ cue = 0
    /\ index = InitialIndex
    /\ out = <<>>
    /\ called = <<>>
    /\ IdleSegmenter
    /\ IdleFormat

\* lines 177-178: continue
SkipSegment ==
    /\ pc = "for_segment"
    /\ seg <= Len(segments)
    /\ NoWords(segments[seg])
    /\ seg' = seg + 1
    /\ UNCHANGED <<pc, args, segments, subtitles, cue, index, out, called,
                   segmenterVars, formatVars>>

\* lines 180-184: the call; an IndexError inside it ends main
CallBuild ==
    /\ pc = "for_segment"
    /\ seg <= Len(segments)
    /\ ~NoWords(segments[seg])
    /\ LET r == build_subtitles_from_words(segments[seg].words, args.pause, args.max_len)
       IN  IF r.raised
           THEN pc' = "raised" /\ UNCHANGED <<subtitles, cue>>
           ELSE pc' = "for_cue" /\ subtitles' = r.subs /\ cue' = 1
    /\ called' = Append(called, segments[seg].words)
    /\ UNCHANGED <<args, segments, seg, index, out, segmenterVars, formatVars>>

\* lines 186-190: one iteration of the inner loop
WriteBlock ==
    /\ pc = "for_cue"
    /\ cue <= Len(subtitles)
    /\ out' = Append(out, Block(index, cue, subtitles[cue]))
    /\ index' = index + 1
    /\ cue' = cue + 1
    /\ UNCHANGED <<pc, args, segments, seg, subtitles, called,
                   segmenterVars, formatVars>>

\* the inner loop is exhausted: back to line 176
NextSegment ==
    /\ pc = "for_cue"
    /\ cue > Len(subtitles)
    /\ pc' = "for_segment"
    /\ seg' = seg + 1
    /\ UNCHANGED <<args, segments, subtitles, cue, index, out, called,
                   segmenterVars, formatVars>>

\* the outer loop is exhausted: the file is closed (line 192)
CloseFile ==
    /\ pc = "for_segment"
    /\ seg > Len(segments)
    /\ pc' = "done"
    /\ UNCHANGED <<mainVars, segmenterVars, formatVars>>

NextMain == SkipSegment \/ CallBuild \/ WriteBlock \/ NextSegment \/ CloseFile

SpecMain == InitMain /\ [][NextMain]_vars

----------------------------------------------------------------------------
(* Properties of build_subtitles_from_words *)

Returned == pc = "returned"

\* the input positions of the first and the last word of cue k
FirstOf(k) == SumTo(groups, k - 1) + 1
LastOf(k)  == SumTo(groups, k)

\* the cues that hold input word j
CuesOf(j) == { k \in 1..Len(groups) : FirstOf(k) <= j /\ j <= LastOf(k) }

\* the words of positions a..b
Run(a, b) == SubSeq(words, a, b)

\* the length of texts joined by single spaces, counted without joining
JoinedLength(texts) ==
    IF texts = <<>> THEN 0
    ELSE SumTo([j \in 1..Len(texts) |-> Len(texts[j])], Len(texts)) + Len(texts) - 1

\* where text j starts in the join (0-based)
OffsetOf(texts, j) == SumTo([i \in 1..Len(texts) |-> Len(texts[i]) + 1], j - 1)

\* text is exactly texts separated by single spaces
IsSpaceJoined(text, texts) ==
    /\ Len(text) = JoinedLength(texts)
    /\ \A j \in 1..Len(texts) :
          /\ SubSeq(text, OffsetOf(texts, j) + 1, OffsetOf(texts, j) + Len(texts[j]))
                = texts[j]
          /\ j < Len(texts) => text[OffsetOf(texts, j) + Len(texts[j]) + 1] = " "

StartsNonDecreasing(s) == \A j \in 1..(Len(s) - 1) : s[j].start <= s[j + 1].start

\* C1: for pause > 0 and max_len > 0 the word counts of the returned cues add
\* up to the number of input words, every input word lies in exactly one cue,
\* and the cue texts read in order are the input words read in order.
C1_NoWordDroppedOrDuplicated ==
    (Returned /\ pause > 0 /\ max_len > 0) =>
        /\ Len(groups) = Len(subs)
        /\ SumTo(groups, Len(groups)) = Len(words)
        /\ \A j \in 1..Len(words) : Cardinality(CuesOf(j)) = 1
        /\ Join([k \in 1..Len(subs) |-> subs[k].text]) = Join(WordTexts(words))

\* C1 witness: three words returned in two cues
C1_Witness ==
    Returned /\ pause > 0 /\ max_len > 0 /\ Len(words) = 3 /\ Len(subs) = 2

\* C2: every returned cue covers a run of consecutive input words; its start is
\* the first word's start, its end the last word's end and its text the
\* words of the run separated by single spaces.
C2_CueCoversRun ==
    Returned =>
        /\ Len(groups) = Len(subs)
        /\ \A k \in 1..Len(subs) :
              /\ 1 <= FirstOf(k) /\ FirstOf(k) <= LastOf(k) /\ LastOf(k) <= Len(words)
              /\ subs[k].start = words[FirstOf(k)].start
              /\ subs[k].end = words[LastOf(k)].end
              /\ IsSpaceJoined(subs[k].text, WordTexts(Run(FirstOf(k), LastOf(k))))

\* C2 witness: a two-word cue flushed inside the loop, then a final cue whose
\* word lasts longer than an instant
C2_Witness ==
    /\ Returned /\ groups = <<2, 1>>
    /\ words[1].start < words[2].end
    /\ words[3].start < words[3].end

\* C4: two adjacent words whose gap is greater than pause are in different
\* cues; two adjacent words whose gap equals pause are in the same cue when the
\* group built so far is no longer than max_len.
C4_GapTestIsStrict ==
    Returned =>
        \A j \in 1..(Len(words) - 1) :
            LET gap == words[j + 1].start - words[j].end
            IN  /\ gap > pause => CuesOf(j) \cap CuesOf(j + 1) = {}
                /\ \A k \in CuesOf(j) :
                      (gap = pause
                         /\ JoinedLength(WordTexts(Run(FirstOf(k), j))) <= max_len)
                      => (j + 1) \in { i \in 1..Len(words) : k \in CuesOf(i) }

\* C4 witness: a gap equal to pause that did not split, then a greater gap
\* that did
C4_Witness ==
    /\ Returned /\ pause >= 0 /\ groups = <<2, 1>>
    /\ words[2].start - words[1].end = pause
    /\ words[3].start - words[2].end > pause

\* C5: when the input start times are non-decreasing, so are the start times
\* of the returned cues.
C5_NeverReorders ==
    (Returned /\ StartsNonDecreasing(words)) => StartsNonDecreasing(subs)

\* C5 witness: three cues with increasing start times
C5_Witness ==
    /\ Returned /\ StartsNonDecreasing(words) /\ Len(subs) = 3
    /\ subs[1].start < subs[2].start /\ subs[2].start < subs[3].start

\* C9 as stated: with max_len >= 0 no flush meets an empty group, so the call
\* never raises, every returned cue has a word and there is at least one cue.
C9_AsStated ==
    /\ max_len >= 0 => pc # "raised"
    /\ Returned => Len(subs) >= 1 /\ \A k \in 1..Len(groups) : groups[k] >= 1

\* C9 amended: the same with pause >= 0 as well.
C9_FlushOnlyNonEmpty ==
    /\ (max_len >= 0 /\ pause >= 0) => pc # "raised"
    /\ Returned =>
          /\ Len(subs) >= 1
          /\ Len(groups) = Len(subs)
          /\ \A k \in 1..Len(groups) : groups[k] >= 1 /\ Len(subs[k].text) >= 1

\* C9 witness: both thresholds are zero and every word starts a new cue
C9_Witness ==
    Returned /\ pause = 0 /\ max_len = 0 /\ Len(words) = 3 /\ Len(subs) = 3

\* C10: in every returned cue, each proper prefix of its words, joined by
\* single spaces, is at most max_len long; so the cue's text is at most
\* max_len + 1 + the length of its last word.
C10_PreAppendBound ==
    Returned =>
        \A k \in 1..Len(subs) :
            /\ \A j \in FirstOf(k)..(LastOf(k) - 1) :
                  JoinedLength(WordTexts(Run(FirstOf(k), j))) <= max_len
            /\ Len(subs[k].text) <= max_len + 1 + Len(words[LastOf(k)].word)

\* C10 witness: a cue of several words that is longer than max_len
C10_Witness ==
    /\ Returned /\ max_len > 0
    /\ \E k \in 1..Len(subs) : groups[k] >= 2 /\ Len(subs[k].text) > max_len

----------------------------------------------------------------------------
(* Properties of length splitting (SpecLen) *)

\* C3 as stated: with one-character words, no pauses and max_len = 5, a group
\* is flushed once its joined length exceeds 5, and the first cue's text is at
\* most 5 + 1 = 6 characters long.
C3_AsStated ==
    Returned =>
        /\ \A k \in 1..(Len(subs) - 1) :
              /\ JoinedLength(WordTexts(Run(FirstOf(k), LastOf(k)))) > max_len
              /\ JoinedLength(WordTexts(Run(FirstOf(k), LastOf(k) - 1))) <= max_len
        /\ Len(subs[1].text) <= max_len + 1

\* C3 amended: a group is flushed once its joined length exceeds 5, that is
\* after four words, and the first cue's text is at most 5 + 1 + 1 = 7
\* characters long: the bound, the separating space and one more word.
C3_LengthSplitting ==
    Returned =>
        /\ \A k \in 1..(Len(subs) - 1) :
              /\ JoinedLength(WordTexts(Run(FirstOf(k), LastOf(k)))) > max_len
              /\ JoinedLength(WordTexts(Run(FirstOf(k), LastOf(k) - 1))) <= max_len
              /\ groups[k] = 4
        /\ Len(words) >= 4 => groups[1] = 4
        /\ Len(subs[1].text) <= max_len + 1 + 1

\* C3 witness: five or more words, the first cue is "x x x x"
C3_Witness ==
    Returned /\ Len(words) >= 5 /\ Len(subs) >= 2 /\ Len(subs[1].text) = 7

----------------------------------------------------------------------------
(* Properties of format_time (SpecFormat) *)

\* C8: format_time renders whole = the time truncated to whole seconds as
\* hours = whole div 3600, minutes = (whole mod 3600) div 60, secs = whole mod
\* 60, and millis = the fraction times 1000, truncated; minutes and secs are
\* in 0..59 and millis in 0..999; 0.0, 3661.5 and 59.999 render as
\* 00:00:00,000, 01:01:01,500 and 00:00:59,999.
C8_FormatTimeTruncates ==
    pc = "formatted" =>
        LET whole   == seconds.s
            hours   == whole \div 3600
            minutes == (whole % 3600) \div 60
            secs    == whole % 60
            millis  == seconds.f \div UnitsPerMilli
        IN  /\ minutes \in 0..59 /\ secs \in 0..59 /\ millis \in 0..999
            /\ hours * 3600 + minutes * 60 + secs = whole
            /\ formatted = Render(hours, minutes, secs, millis)
            /\ seconds = [s |-> 0, f |-> 0] => formatted = "00:00:00,000"
            /\ seconds = [s |-> 3661, f |-> 5000000] => formatted = "01:01:01,500"
            /\ seconds = [s |-> 59, f |-> 9990000] => formatted = "00:00:59,999"

\* the three examples of C8 alone: they hold
C8_Examples ==
    pc = "formatted" =>
        /\ seconds = [s |-> 0, f |-> 0] => formatted = "00:00:00,000"
        /\ seconds = [s |-> 3661, f |-> 5000000] => formatted = "01:01:01,500"
        /\ seconds = [s |-> 59, f |-> 9990000] => formatted = "00:00:59,999"
        /\ seconds = [s |-> 360000, f |-> 2500000] => formatted = "100:00:00,250"
        /\ seconds = [s |-> 0, f |-> 78125] => formatted = "00:00:00,007"

----------------------------------------------------------------------------
(* Properties of main (SpecMain) *)

Wordless(segment) ==
    IF "words" \in DOMAIN segment THEN Len(segment.words) = 0 ELSE TRUE

\* the cues of the first n segments, in order
RECURSIVE CuesUpTo(_)
CuesUpTo(n) ==
    IF n = 0 THEN <<>>
    ELSE CuesUpTo(n - 1) \o
         (IF Wordless(segments[n]) THEN <<>>
          ELSE build_subtitles_from_words(segments[n].words, args.pause, args.max_len).subs)

\* the cues whose blocks have been written
CuesWritten ==
    CASE pc = "for_cue" -> CuesUpTo(seg - 1) \o SubSeq(subtitles, 1, cue - 1)
      [] pc = "done"    -> CuesUpTo(Len(segments))
      [] OTHER          -> CuesUpTo(seg - 1)

\* C6: the k-th block written carries the number k, whatever segment its cue
\* came from; the running index is one more than the number of blocks written;
\* the blocks are those of the cues of the segments processed so far, segment
\* by segment and, within a segment, in the order the segmenter returned them.
C6_GlobalSequentialIndex ==
    /\ index = Len(out) + 1
    /\ \A k \in 1..Len(out) : out[k].index = ToString(k)
    /\ Len(out) = Len(CuesWritten)
    /\ \A k \in 1..Len(out) :
          /\ out[k].text = Strip(CuesWritten[k].text)
          /\ out[k].start = format_time(Seconds(CuesWritten[k].start))
          /\ out[k].end = format_time(Seconds(CuesWritten[k].end))

\* C6 witness: a finished run of three segments, the last two with several
\* cues each
C6_Witness ==
    /\ pc = "done" /\ Len(segments) = 3 /\ Len(out) >= 5
    /\ ~Wordless(segments[2]) /\ ~Wordless(segments[3])
    /\ Len(CuesUpTo(2)) - Len(CuesUpTo(1)) >= 2
    /\ Len(CuesUpTo(3)) - Len(CuesUpTo(2)) >= 2

\* C7: a step taken at a segment without words writes no block, leaves the
\* running index unchanged, calls nothing and moves on to the next segment;
\* and build_subtitles_from_words is never called with an empty word list.
C7_EmptySegmentSkipped ==
    /\ [][ (pc = "for_segment" /\ seg <= Len(segments) /\ Wordless(segments[seg]))
             => (/\ out' = out /\ index' = index /\ called' = called
                 /\ pc' = "for_segment" /\ seg' = seg + 1) ]_vars
    /\ [](\A c \in 1..Len(called) : called[c] # <<>>)

\* C7 witness: a segment without word list and one with an empty word list
\* were skipped, and the blocks of the third segment start at 1
C7_Witness ==
    /\ pc = "done" /\ Len(segments) = 3
    /\ "words" \notin DOMAIN segments[1]
    /\ "words" \in DOMAIN segments[2] /\ segments[2].words = <<>>
    /\ Len(out) >= 2 /\ out[1].index = "1" /\ index = Len(out) + 1
    /\ Len(called) = 1

====
